---- MODULE Spec2Model ----
(***************************************************************************)
(* CoreStack HRMS: the attendance and leave route handlers, the response   *)
(* helpers and the multi-row create handlers, as state machines over the   *)
(* relational tables they read and write.                                  *)
(***************************************************************************)
EXTENDS Integers, Sequences, FiniteSets, TLC

VARIABLES
    now,             \* the server clock: datetime.utcnow(), two ticks a day
    users,           \* table users: a sequence, the row id is the index
    employees,       \* table employees: a sequence, the row id is the index
    attendance,      \* table attendance: a set of rows
    leave_requests,  \* table leave_requests: a sequence, the row id is the index
    projects,        \* table projects: a sequence, the row id is the index
    project_members, \* table project_members: a set of rows
    okrs,            \* table okrs: a sequence, the row id is the index
    key_results,     \* table key_results: a set of rows
    payrolls,        \* table payrolls: a sequence, the row id is the index
    proc,            \* the requests in flight, one per worker
    dumped,          \* the employees rows the last answer serialised
    req,             \* the request answered last
    resp             \* the HTTP status it was answered with

vars == <<now, users, employees, attendance, leave_requests, projects,
          project_members, okrs, key_results, payrolls, proc, dumped, req, resp>>

\* what the leave handlers never touch
not_leave == <<now, users, employees, attendance, projects, project_members,
               okrs, key_results, payrolls, proc, dumped>>

\* what the attendance handlers never touch
not_attendance == <<users, employees, leave_requests, projects,
                    project_members, okrs, key_results, payrolls, proc, dumped>>

(***************************************************************************)
(* Bounds of the model.                                                    *)
(***************************************************************************)
MaxNow == 3
NumWorkers == 2
MaxLeave == 1
MaxOverlapLeave == 2
MaxOkrs == 2
MaxProjects == 1
MaxNewEmployees == 1

(***************************************************************************)
(* Column values.                                                          *)
(***************************************************************************)
\* a NULL column, a missing row, an absent request field
None == 0
\* the same for a text column
NoText == ""

ADMIN == "admin"
HR == "hr"
MANAGER == "manager"
EMPLOYEE == "employee"

AttendanceStatuses == {"present", "absent", "half-day"}
WorkFromValues == {"office", "home", "remote"}

\* date.today(): the calendar day of the clock, two ticks a day, days from 1
DayOf(t) == (t + 1) \div 2
today == DayOf(now)

Max(S) == CHOOSE m \in S : \A x \in S : x <= m
Min(S) == CHOOSE m \in S : \A x \in S : m <= x

(***************************************************************************)
(* The directory the handlers run against: an admin, an HR user, a manager *)
(* with one direct report, a second manager without reports, and a user    *)
(* that was registered without an employee profile.                        *)
(***************************************************************************)
DirectoryUsers ==
    << [email |-> "admin@x", role |-> ADMIN],
       [email |-> "hr@x", role |-> HR],
       [email |-> "lead@x", role |-> MANAGER],
       [email |-> "dev@x", role |-> EMPLOYEE],
       [email |-> "lead2@x", role |-> MANAGER],
       [email |-> "new@x", role |-> EMPLOYEE] >>

\* a row of table employees: the columns a request can give, the others NULL
EmployeeRow(user_id, employee_id, manager_id, data) ==
    [user_id |-> user_id, employee_id |-> employee_id,
     manager_id |-> manager_id,
     first_name |-> data.first_name, last_name |-> data.last_name,
     department_id |-> IF "department_id" \in DOMAIN data
                       THEN data.department_id ELSE None,
     position |-> IF "position" \in DOMAIN data THEN data.position ELSE NoText,
     date_of_birth |-> IF "date_of_birth" \in DOMAIN data
                       THEN data.date_of_birth ELSE None,
     phone_number |-> IF "phone_number" \in DOMAIN data
                      THEN data.phone_number ELSE NoText,
     address |-> IF "address" \in DOMAIN data THEN data.address ELSE NoText,
     gender |-> IF "gender" \in DOMAIN data THEN data.gender ELSE NoText,
     profile_image |-> NoText]

DirectoryNames == [first_name |-> "f", last_name |-> "l"]

DirectoryEmployees ==
    << EmployeeRow(1, "E1", None, DirectoryNames),
       EmployeeRow(2, "E2", None, DirectoryNames),
       EmployeeRow(3, "E3", None, DirectoryNames),
       EmployeeRow(4, "E4", 3, DirectoryNames),
       EmployeeRow(5, "E5", None, DirectoryNames) >>

\* PayrollStatus: a member is held in the column by its name
PayrollStatus ==
    [DRAFT |-> "DRAFT", PROCESSED |-> "PROCESSED", PAID |-> "PAID",
     CANCELLED |-> "CANCELLED"]

\* the names of the members: what the Enum column can be read back from.
\* Loading a row whose column holds another string is a LookupError.
PayrollStatusNames == {PayrollStatus[k] : k \in DOMAIN PayrollStatus}

\* table payrolls at the start: a draft payroll of the employee
DirectoryPayrolls ==
    << [employee_id |-> 4, net_amount |-> 1, status |-> PayrollStatus.DRAFT,
        payment_date |-> None, notes |-> NoText, created_by |-> 2] >>

\* User.query.get(id).role, None when there is no such user
RoleOf(u) == IF u \in DOMAIN users THEN users[u].role ELSE "none"

\* Employee.query.filter_by(user_id=u).first(): the employee id, or None
EmployeeOfUser(u) ==
    LET found == {e \in DOMAIN employees : employees[e].user_id = u}
    IN IF found = {} THEN None ELSE Min(found)

\* the decorator admin_or_hr_required lets the request through
admin_or_hr(u) == RoleOf(u) \in {ADMIN, HR}

(***************************************************************************)
(* Table attendance.                                                       *)
(***************************************************************************)
\* the columns (employee_id, date) of a row equal the pair (e, d): the
\* filter_by of the handlers and the columns of uix_employee_date
SameEmployeeDate_never(a, e, d) == FALSE
SameEmployeeDate(a, e, d) == a.employee_id = e /\ a.date = d

\* Attendance.query.filter_by(employee_id=e, date=d).first(): a set holding
\* the first row, empty when there is none
AttendanceFor(table, e, d) ==
    LET found == {a \in table : SameEmployeeDate(a, e, d)}
    IN {a \in found : a.id = Min({b.id : b \in found})}

\* Attendance.query.get(id)
AttendanceGet(table, id) == {a \in table : a.id = id}

\* the UniqueConstraint('employee_id', 'date') of the table
uix_employee_date_off(table) == TRUE
uix_employee_date(table) ==
    \A a, b \in table :
        SameEmployeeDate(a, b.employee_id, b.date) => a.id = b.id

\* "if attendance and attendance.clock_in": today's row has a clock_in
AlreadyClockedIn_never(found) == FALSE
AlreadyClockedIn(found) == \E a \in found : a.clock_in # None

\* the integer primary key of a new row
NewId(table) == IF table = {} THEN 1 ELSE Max({a.id : a \in table}) + 1

\* setattr(row, key, value) for every key of data
SetFields(row, data) ==
    [f \in DOMAIN row |-> IF f \in DOMAIN data THEN data[f] ELSE row[f]]

Request(op, u) == [op |-> op, user |-> u, id |-> None]

\* a request that names a row by its id in the path
RequestOn(op, u, id) == [op |-> op, user |-> u, id |-> id]

\* a request on a row whose JSON body the answer depends on
RequestWith(op, u, id, data) ==
    [op |-> op, user |-> u, id |-> id, body |-> data]

\* POST /attendance/clock-in
clock_in(u, data) ==
    LET e == EmployeeOfUser(u)
        found == AttendanceFor(attendance, e, today)
        row == [id |-> NewId(attendance), employee_id |-> e, date |-> today,
                clock_in |-> now, clock_out |-> None, status |-> "present",
                work_from |-> data.work_from, notes |-> data.notes]
    IN /\ req' = Request("clock_in", u)
       /\ UNCHANGED <<now, not_attendance>>
       /\ IF e = None
          THEN resp' = 404 /\ UNCHANGED attendance
          ELSE IF AlreadyClockedIn(found)
          THEN resp' = 400 /\ UNCHANGED attendance
          ELSE IF found # {}
          THEN /\ attendance' =
                    (attendance \ found) \cup
                    {[a EXCEPT !.clock_in = now, !.work_from = data.work_from,
                               !.notes = data.notes] : a \in found}
               /\ resp' = 200
          ELSE IF uix_employee_date(attendance \cup {row})
          THEN attendance' = attendance \cup {row} /\ resp' = 200
          ELSE resp' = 500 /\ UNCHANGED attendance

\* POST /attendance/clock-out
clock_out(u, data) ==
    LET e == EmployeeOfUser(u)
        found == AttendanceFor(attendance, e, today)
    IN /\ req' = Request("clock_out", u)
       /\ UNCHANGED <<now, not_attendance>>
       /\ IF e = None
          THEN resp' = 404 /\ UNCHANGED attendance
          ELSE IF ~AlreadyClockedIn(found)
          THEN resp' = 400 /\ UNCHANGED attendance
          ELSE IF \E a \in found : a.clock_out # None
          THEN resp' = 400 /\ UNCHANGED attendance
          ELSE /\ attendance' =
                    (attendance \ found) \cup
                    {[a EXCEPT !.clock_out = now,
                               !.notes = IF data.notes # <<>>
                                         THEN IF a.notes # <<>>
                                              THEN a.notes \o data.notes
                                              ELSE data.notes
                                         ELSE a.notes] : a \in found}
               /\ resp' = 200

\* AttendanceCreateSchema().load(data) succeeds
AttendanceCreateValid(data) ==
    /\ data.status \in AttendanceStatuses
    /\ data.work_from \in WorkFromValues \cup {NoText}
    /\ data.date <= today

\* POST /attendance/record
record_attendance(u, data) ==
    LET row == [id |-> NewId(attendance), employee_id |-> data.employee_id,
                date |-> data.date, clock_in |-> data.clock_in,
                clock_out |-> data.clock_out, status |-> data.status,
                work_from |-> IF data.work_from = NoText THEN "office"
                              ELSE data.work_from,
                notes |-> data.notes]
    IN /\ req' = Request("record_attendance", u)
       /\ UNCHANGED <<now, not_attendance>>
       /\ IF ~admin_or_hr(u)
          THEN resp' = 403 /\ UNCHANGED attendance
          ELSE IF ~AttendanceCreateValid(data)
          THEN resp' = 400 /\ UNCHANGED attendance
          ELSE IF data.employee_id \notin DOMAIN employees
          THEN resp' = 404 /\ UNCHANGED attendance
          ELSE IF AttendanceFor(attendance, data.employee_id, data.date) # {}
          THEN resp' = 400 /\ UNCHANGED attendance
          ELSE IF uix_employee_date(attendance \cup {row})
          THEN attendance' = attendance \cup {row} /\ resp' = 201
          ELSE resp' = 500 /\ UNCHANGED attendance

\* AttendanceUpdateSchema().load(data) succeeds
AttendanceUpdateValid(data) ==
    /\ DOMAIN data \subseteq {"clock_in", "clock_out", "status", "work_from", "notes"}
    /\ "status" \in DOMAIN data => data.status \in AttendanceStatuses
    /\ "work_from" \in DOMAIN data => data.work_from \in WorkFromValues
    /\ "clock_in" \in DOMAIN data => data.clock_in # None
    /\ "clock_out" \in DOMAIN data => data.clock_out # None

\* PUT /attendance/record/<attendance_id>
update_attendance(u, id, data) ==
    LET found == AttendanceGet(attendance, id)
        updated == (attendance \ found) \cup {SetFields(a, data) : a \in found}
    IN /\ req' = Request("update_attendance", u)
       /\ UNCHANGED <<now, not_attendance>>
       /\ IF ~admin_or_hr(u)
          THEN resp' = 403 /\ UNCHANGED attendance
          ELSE IF found = {}
          THEN resp' = 404 /\ UNCHANGED attendance
          ELSE IF ~AttendanceUpdateValid(data)
          THEN resp' = 400 /\ UNCHANGED attendance
          ELSE IF uix_employee_date(updated)
          THEN attendance' = updated /\ resp' = 200
          ELSE resp' = 500 /\ UNCHANGED attendance

\* DELETE /attendance/record/<attendance_id>
delete_attendance(u, id) ==
    LET found == AttendanceGet(attendance, id)
    IN /\ req' = Request("delete_attendance", u)
       /\ UNCHANGED <<now, not_attendance>>
       /\ IF ~admin_or_hr(u)
          THEN resp' = 403 /\ UNCHANGED attendance
          ELSE IF found = {}
          THEN resp' = 404 /\ UNCHANGED attendance
          ELSE attendance' = attendance \ found /\ resp' = 200

\* the clock advances
Tick ==
    /\ now < MaxNow
    /\ now' = now + 1
    /\ req' = Request("tick", None)
    /\ resp' = None
    /\ UNCHANGED <<attendance, not_attendance>>

(***************************************************************************)
(* The requests of the attendance specification.                           *)
(***************************************************************************)
ClockInBodies == { [work_from |-> "office", notes |-> <<>>] }

ClockOutBodies == { [notes |-> <<"out">>] }

RecordBodies ==
    { [employee_id |-> e, date |-> d, status |-> s, clock_in |-> None,
       clock_out |-> None, work_from |-> NoText, notes |-> <<>>] :
         e \in {4, 9}, d \in 1 .. DayOf(MaxNow) + 1, s \in {"absent"} }
    \cup
    { [employee_id |-> 5, date |-> 1, status |-> "late", clock_in |-> None,
       clock_out |-> None, work_from |-> NoText, notes |-> <<>>] }

UpdateBodies == { [status |-> "late"], [clock_in |-> 2, clock_out |-> 1] }

AttendanceIds == 1 .. 2

\* db.create_all() on an empty database, then the directory
Empty ==
    /\ now = 1
    /\ users = DirectoryUsers
    /\ employees = DirectoryEmployees
    /\ attendance = {}
    /\ leave_requests = <<>>
    /\ projects = <<>>
    /\ project_members = {}
    /\ okrs = <<>>
    /\ key_results = {}
    /\ payrolls = DirectoryPayrolls
    /\ proc = <<>>
    /\ dumped = {}
    /\ req = Request("none", None)
    /\ resp = None

Init == Empty

Next ==
    \/ \E u \in {4, 5}, data \in ClockInBodies : clock_in(u, data)
    \/ \E u \in {4}, data \in ClockOutBodies : clock_out(u, data)
    \/ \E u \in {1, 4}, data \in RecordBodies : record_attendance(u, data)
    \/ \E u \in {2, 4}, id \in AttendanceIds, data \in UpdateBodies :
           update_attendance(u, id, data)
    \/ \E u \in {2, 4}, id \in AttendanceIds : delete_attendance(u, id)
    \/ Tick

Spec == Init /\ [][Next]_vars

(***************************************************************************)
(* C1. After any sequence of clock_in, clock_out, record_attendance,       *)
(* update_attendance and delete_attendance requests, executed one at a     *)
(* time, the table holds at most one attendance row for each pair of       *)
(* employee and date.                                                      *)
(***************************************************************************)
C1_OneRecordPerEmployeeDate ==
    \A a, b \in attendance :
        (a.employee_id = b.employee_id /\ a.date = b.date) => a = b

\* a second clock-in of employee 4 was turned away, next to a row of
\* another employee for the same day
C1_Witness ==
    /\ req = Request("clock_in", 4) /\ resp = 400
    /\ \E a, b \in attendance :
          /\ a.employee_id = 4 /\ a.date = today /\ a.clock_in # None
          /\ b.employee_id = 5 /\ b.date = today

(***************************************************************************)
(* Clock-in and clock-out alone, with no admin edit in between: the table  *)
(* starts empty or with a row an admin recorded for day 1.                 *)
(***************************************************************************)
RecordedAbsent ==
    [id |-> 1, employee_id |-> 4, date |-> 1, clock_in |-> None,
     clock_out |-> None, status |-> "absent", work_from |-> "office",
     notes |-> <<>>]

InitClock ==
    /\ now = 1
    /\ users = DirectoryUsers
    /\ employees = DirectoryEmployees
    /\ attendance \in {{}, {RecordedAbsent}}
    /\ leave_requests = <<>>
    /\ projects = <<>>
    /\ project_members = {}
    /\ okrs = <<>>
    /\ key_results = {}
    /\ payrolls = DirectoryPayrolls
    /\ proc = <<>>
    /\ dumped = {}
    /\ req = Request("none", None)
    /\ resp = None

ClockBodies ==
    { [work_from |-> "office", notes |-> <<>>],
      [work_from |-> "home", notes |-> <<"n">>] }

NextClock ==
    \/ \E u \in {4, 6}, data \in ClockBodies : clock_in(u, data)
    \/ \E u \in {4, 6}, data \in ClockBodies : clock_out(u, data)
    \/ Tick

SpecClock == InitClock /\ [][NextClock]_vars

\* today's row of employee e, as a set
TodayRow(e) == {a \in attendance : a.employee_id = e /\ a.date = today}

(***************************************************************************)
(* C3. For one employee and one day, with clock_in and clock_out requests  *)
(* only: clock_in succeeds only when today's row has no clock_in,          *)
(* clock_out only when it has a clock_in and no clock_out; a rejected      *)
(* request is answered 400 and changes nothing; a clock_in or clock_out    *)
(* that was set is never set again, so each succeeds at most once a day,   *)
(* and the clock_out is not earlier than the clock_in.                     *)
(***************************************************************************)
C3_Step ==
    LET e == EmployeeOfUser(req'.user)
    IN /\ (req'.op = "clock_in" /\ resp' = 200) =>
              /\ \A a \in TodayRow(e) : a.clock_in = None
              /\ \E a \in attendance' :
                    a.employee_id = e /\ a.date = today /\ a.clock_in = now
       /\ (req'.op = "clock_out" /\ resp' = 200) =>
              /\ \E a \in TodayRow(e) : a.clock_in # None /\ a.clock_out = None
              /\ \E a \in attendance' :
                    a.employee_id = e /\ a.date = today /\ a.clock_out = now
       /\ (req'.op \in {"clock_in", "clock_out"} /\ e # None /\ resp' # 200) =>
              resp' = 400 /\ attendance' = attendance
       /\ \A a \in attendance :
              \E b \in attendance' :
                 /\ b.id = a.id /\ b.employee_id = a.employee_id /\ b.date = a.date
                 /\ a.clock_in # None => b.clock_in = a.clock_in
                 /\ a.clock_out # None => b.clock_out = a.clock_out
       /\ \A b \in attendance' :
              b.clock_out # None => b.clock_in # None /\ b.clock_in <= b.clock_out

C3_ClockInThenOutOnce == [][C3_Step]_vars

\* employee 4 clocked in and out, on the row the admin had recorded, and
\* a further clock-out was turned away
C3_Witness ==
    /\ req = Request("clock_out", 4) /\ resp = 400
    /\ \E a \in attendance :
          /\ a.employee_id = 4 /\ a.date = today /\ a.status = "absent"
          /\ a.clock_in # None /\ a.clock_out # None

(***************************************************************************)
(* Two clock_in requests in flight: each worker runs the lookup and the    *)
(* check of the handler in one transaction step and the write and commit   *)
(* in a later one, against the same table.                                 *)
(***************************************************************************)
Workers == 1 .. NumWorkers

Idle == [pc |-> "idle", user |-> None, emp |-> None, day |-> None,
         found |-> None, resp |-> None]

\* clock_in up to "if attendance and attendance.clock_in": the employee, the
\* day and the row the worker holds from here on
clock_in_lookup(w, u) ==
    LET e == EmployeeOfUser(u)
        found == AttendanceFor(attendance, e, today)
    IN /\ proc[w].pc = "idle"
       /\ proc' = [proc EXCEPT ![w] =
            IF e = None
            THEN [Idle EXCEPT !.pc = "done", !.user = u, !.resp = 404]
            ELSE IF AlreadyClockedIn(found)
            THEN [Idle EXCEPT !.pc = "done", !.user = u, !.emp = e,
                              !.day = today, !.resp = 400,
                              !.found = Min({a.id : a \in found})]
            ELSE [pc |-> "checked", user |-> u, emp |-> e, day |-> today,
                  found |-> IF found = {} THEN None
                            ELSE Min({a.id : a \in found}),
                  resp |-> None]]
       /\ UNCHANGED <<now, users, employees, attendance, leave_requests,
                      projects, project_members, okrs, key_results, payrolls, dumped,
                      req, resp>>

\* clock_in from "now = datetime.utcnow()" to the commit: an UPDATE of the
\* row held, or an INSERT that the unique constraint may refuse
clock_in_commit(w, data) ==
    LET me == proc[w]
        held == AttendanceGet(attendance, me.found)
        row == [id |-> NewId(attendance), employee_id |-> me.emp,
                date |-> me.day, clock_in |-> now, clock_out |-> None,
                status |-> "present", work_from |-> data.work_from,
                notes |-> data.notes]
        answer(code) == proc' = [proc EXCEPT ![w].pc = "done", ![w].resp = code]
    IN /\ me.pc = "checked"
       /\ IF me.found # None
          THEN IF held = {}
               THEN answer(500) /\ UNCHANGED attendance
               ELSE /\ attendance' =
                         (attendance \ held) \cup
                         {[a EXCEPT !.clock_in = now,
                                    !.work_from = data.work_from,
                                    !.notes = data.notes] : a \in held}
                    /\ answer(200)
          ELSE IF uix_employee_date(attendance \cup {row})
          THEN attendance' = attendance \cup {row} /\ answer(200)
          ELSE answer(500) /\ UNCHANGED attendance
       /\ UNCHANGED <<now, users, employees, leave_requests, projects,
                      project_members, okrs, key_results, payrolls, dumped,
                      req, resp>>

InitRace ==
    /\ now = 1
    /\ users = DirectoryUsers
    /\ employees = DirectoryEmployees
    /\ attendance \in {{}, {RecordedAbsent}}
    /\ leave_requests = <<>>
    /\ projects = <<>>
    /\ project_members = {}
    /\ okrs = <<>>
    /\ key_results = {}
    /\ payrolls = DirectoryPayrolls
    /\ proc = [w \in Workers |-> Idle]
    /\ dumped = {}
    /\ req = Request("none", None)
    /\ resp = None

NextRace ==
    \/ \E w \in Workers, u \in {4, 5, 6} : clock_in_lookup(w, u)
    \/ \E w \in Workers, data \in ClockInBodies : clock_in_commit(w, data)
    \/ Tick /\ UNCHANGED proc

SpecRace == InitRace /\ [][NextRace]_vars

\* two requests of the same employee and day, the lookup of each found no
\* row: both ran it before either committed
Raced(v, w) ==
    /\ v # w
    /\ proc[v].pc \in {"checked", "done"} /\ proc[w].pc \in {"checked", "done"}
    /\ proc[v].emp # None /\ proc[v].emp = proc[w].emp
    /\ proc[v].day = proc[w].day
    /\ proc[v].found = None /\ proc[w].found = None

(***************************************************************************)
(* C2. When two clock_in requests of one employee and day both run the     *)
(* lookup before either commits, the check of the handler rejects neither  *)
(* (neither is answered 400); at most one of them is stored, the other is  *)
(* answered 500 where uix_employee_date refuses its insert, and no state   *)
(* holds two attendance rows for one employee and day.                     *)
(***************************************************************************)
C2_RaceStoppedByConstraint ==
    /\ \A a, b \in attendance :
          (a.employee_id = b.employee_id /\ a.date = b.date) => a = b
    /\ \A v, w \in Workers :
          Raced(v, w) =>
            /\ proc[v].resp \in {None, 200, 500}
            /\ ~(proc[v].resp = 200 /\ proc[w].resp = 200)
            /\ proc[v].resp = 500 =>
                  \E a \in attendance :
                      a.employee_id = proc[v].emp /\ a.date = proc[v].day
            /\ (proc[v].pc = "done" /\ proc[w].pc = "done") =>
                  500 \in {proc[v].resp, proc[w].resp}

\* both requests of employee 4 passed the check, one was stored and the
\* other answered 500
C2_Witness ==
    \E v, w \in Workers :
        /\ Raced(v, w) /\ proc[v].pc = "done" /\ proc[w].pc = "done"
        /\ proc[v].resp = 200 /\ proc[w].resp = 500
        /\ Cardinality({a \in attendance : a.employee_id = proc[v].emp
                                             /\ a.date = proc[v].day}) = 1

(***************************************************************************)
(* Table leave_requests and the leave handlers.                            *)
(***************************************************************************)
PENDING == "pending"
APPROVED == "approved"
REJECTED == "rejected"
CANCELLED == "cancelled"

LeaveTypes == {"annual", "sick", "personal", "maternity", "paternity",
               "bereavement", "unpaid", "other"}

\* date.weekday(): 0 is Monday; day 1 of the model is a Thursday
Weekday(d) == (d + 2) % 7

\* sum(1 for i in range(delta.days + 1) if (start + i).weekday() < 5)
WorkingDays(s, e) == Cardinality({d \in s .. e : Weekday(d) < 5})

\* data.get(key), with a default for an absent key
Get(data, key, default) == IF key \in DOMAIN data THEN data[key] ELSE default

\* the overlap query of create_leave_request and update_leave_request: a
\* request of employee e, other than row skip, neither rejected nor
\* cancelled, that meets [s, e2] in one of the three ways of the filter
Overlapping_startOnly(rows, e, skip, s, e2) ==
    \E i \in DOMAIN rows :
        /\ rows[i].employee_id = e
        /\ i # skip
        /\ rows[i].status # REJECTED
        /\ rows[i].status # CANCELLED
        /\ rows[i].start_date <= s /\ rows[i].end_date >= s
Overlapping(rows, e, skip, s, e2) ==
    \E i \in DOMAIN rows :
        /\ rows[i].employee_id = e
        /\ i # skip
        /\ rows[i].status # REJECTED
        /\ rows[i].status # CANCELLED
        /\ \/ rows[i].start_date <= s /\ rows[i].end_date >= s
           \/ rows[i].start_date <= e2 /\ rows[i].end_date >= e2
           \/ rows[i].start_date >= s /\ rows[i].end_date <= e2

\* LeaveRequestCreateSchema().load(data) succeeds
LeaveCreateValid(data) ==
    /\ {"leave_type", "start_date", "end_date"} \subseteq DOMAIN data
    /\ data.leave_type \in LeaveTypes
    /\ data.start_date >= today
    /\ "days" \in DOMAIN data => data.days > 0

\* POST /leave
create_leave_request(u, data) ==
    LET e == EmployeeOfUser(u)
        row == [employee_id |-> e, leave_type |-> data.leave_type,
                start_date |-> data.start_date, end_date |-> data.end_date,
                days |-> data.days, reason |-> Get(data, "reason", NoText),
                status |-> PENDING, reviewed_by |-> None,
                reviewed_at |-> None, review_note |-> NoText]
    IN /\ req' = Request("create_leave_request", u)
       /\ UNCHANGED not_leave
       /\ IF ~LeaveCreateValid(data)
          THEN resp' = 400 /\ UNCHANGED leave_requests
          ELSE IF e = None
          THEN resp' = 404 /\ UNCHANGED leave_requests
          ELSE IF "days" \notin DOMAIN data
          THEN resp' = 500 /\ UNCHANGED leave_requests
          ELSE IF data.start_date > data.end_date
          THEN resp' = 400 /\ UNCHANGED leave_requests
          ELSE IF data.start_date < today
          THEN resp' = 400 /\ UNCHANGED leave_requests
          ELSE IF Overlapping(leave_requests, e, None, data.start_date,
                              data.end_date)
          THEN resp' = 400 /\ UNCHANGED leave_requests
          ELSE leave_requests' = Append(leave_requests, row) /\ resp' = 201

\* LeaveRequestUpdateSchema().load(data) succeeds
LeaveUpdateValid(data) ==
    /\ DOMAIN data \subseteq
          {"leave_type", "start_date", "end_date", "days", "reason"}
    /\ "leave_type" \in DOMAIN data => data.leave_type \in LeaveTypes
    /\ "start_date" \in DOMAIN data => data.start_date >= today
    /\ "days" \in DOMAIN data => data.days > 0

\* "if not employee or leave_request.employee_id != employee.id"
NotOwner_never(u, row) == FALSE
NotOwner(u, row) ==
    EmployeeOfUser(u) = None \/ row.employee_id # EmployeeOfUser(u)

\* PUT /leave/<leave_id>
update_leave_request(u, id, data) ==
    LET e == EmployeeOfUser(u)
        row == leave_requests[id]
        start_date == Get(data, "start_date", row.start_date)
        end_date == Get(data, "end_date", row.end_date)
        dated == "start_date" \in DOMAIN data \/ "end_date" \in DOMAIN data
        sent == IF dated
                THEN [k \in DOMAIN data \cup {"days"} |->
                        IF k = "days" THEN WorkingDays(start_date, end_date)
                        ELSE data[k]]
                ELSE data
    IN /\ req' = RequestOn("update_leave_request", u, id)
       /\ UNCHANGED not_leave
       /\ IF id \notin DOMAIN leave_requests
          THEN resp' = 404 /\ UNCHANGED leave_requests
          ELSE IF row.status # PENDING
          THEN resp' = 400 /\ UNCHANGED leave_requests
          ELSE IF NotOwner(u, row)
          THEN resp' = 403 /\ UNCHANGED leave_requests
          ELSE IF ~LeaveUpdateValid(data)
          THEN resp' = 400 /\ UNCHANGED leave_requests
          ELSE IF start_date > end_date
          THEN resp' = 400 /\ UNCHANGED leave_requests
          ELSE IF start_date < today
          THEN resp' = 400 /\ UNCHANGED leave_requests
          ELSE IF dated /\ Overlapping(leave_requests, e, id, start_date,
                                       end_date)
          THEN resp' = 400 /\ UNCHANGED leave_requests
          ELSE /\ leave_requests' =
                    [leave_requests EXCEPT ![id] = SetFields(row, sent)]
               /\ resp' = 200

\* "status in [REJECTED, CANCELLED]" and "APPROVED and start_date < today":
\* the request can no longer be cancelled
NotCancellable(row) ==
    \/ row.status \in {REJECTED, CANCELLED}
    \/ row.status = APPROVED /\ row.start_date < today

\* POST /leave/<leave_id>/cancel
cancel_leave_request(u, id) ==
    LET row == leave_requests[id]
    IN /\ req' = RequestOn("cancel_leave_request", u, id)
       /\ UNCHANGED not_leave
       /\ IF id \notin DOMAIN leave_requests
          THEN resp' = 404 /\ UNCHANGED leave_requests
          ELSE IF NotOwner(u, row)
          THEN resp' = 403 /\ UNCHANGED leave_requests
          ELSE IF NotCancellable(row)
          THEN resp' = 400 /\ UNCHANGED leave_requests
          ELSE /\ leave_requests' =
                    [leave_requests EXCEPT ![id].status = CANCELLED]
               /\ resp' = 200

\* "if leave_request.status != LeaveStatus.PENDING"
AlreadyProcessed_never(row) == FALSE
AlreadyProcessed(row) == row.status # PENDING

\* can_approve of leave_action: admin and HR, or the manager of the
\* employee who asked
can_approve_anyManager(u, row) == RoleOf(u) \in {ADMIN, HR, MANAGER}
can_approve(u, row) ==
    \/ RoleOf(u) \in {ADMIN, HR}
    \/ /\ RoleOf(u) = MANAGER
       /\ row.employee_id \in DOMAIN employees
       /\ employees[row.employee_id].manager_id = EmployeeOfUser(u)

\* LeaveRequestActionSchema().load(data) succeeds
LeaveActionValid(data) ==
    /\ DOMAIN data \subseteq {"action", "note"}
    /\ "action" \in DOMAIN data
    /\ data.action \in {"approve", "reject"}

\* POST /leave/<leave_id>/action
leave_action(u, id, data) ==
    LET row == leave_requests[id]
        reviewer == EmployeeOfUser(u)
    IN /\ req' = RequestWith("leave_action", u, id, data)
       /\ UNCHANGED not_leave
       /\ IF id \notin DOMAIN leave_requests
          THEN resp' = 404 /\ UNCHANGED leave_requests
          ELSE IF AlreadyProcessed(row)
          THEN resp' = 400 /\ UNCHANGED leave_requests
          ELSE IF ~LeaveActionValid(data)
          THEN resp' = 400 /\ UNCHANGED leave_requests
          ELSE IF reviewer = None
          THEN resp' = 404 /\ UNCHANGED leave_requests
          ELSE IF ~can_approve(u, row)
          THEN resp' = 403 /\ UNCHANGED leave_requests
          ELSE /\ leave_requests' =
                    [leave_requests EXCEPT ![id] =
                        [row EXCEPT
                            !.status = IF data.action = "approve"
                                       THEN APPROVED ELSE REJECTED,
                            !.reviewed_by = reviewer,
                            !.reviewed_at = now,
                            !.review_note = Get(data, "note", NoText)]]
               /\ resp' = 200

\* a day passes between two leave requests
DayPasses ==
    /\ now + 2 <= MaxNow
    /\ now' = now + 2
    /\ req' = Request("tick", None)
    /\ resp' = None
    /\ UNCHANGED <<users, employees, attendance, leave_requests, projects,
                   project_members, okrs, key_results, payrolls, proc, dumped>>

(***************************************************************************)
(* The requests of the leave specification: the manager (user 3) and his   *)
(* report (user 4) ask for leave; everybody acts on the requests.          *)
(***************************************************************************)
LeaveIds == 1 .. MaxLeave

LeaveCreateBodies ==
    { [leave_type |-> "annual", start_date |-> 2, end_date |-> 3, days |-> 2],
      [leave_type |-> "annual", start_date |-> 2, end_date |-> 3],
      [leave_type |-> "holiday", start_date |-> 2, end_date |-> 3, days |-> 2] }

LeaveUpdateBodies ==
    { [leave_type |-> "sick", reason |-> "flu", start_date |-> 3],
      [days |-> 0] }

NextLeave ==
    \/ /\ Len(leave_requests) < MaxLeave
       /\ \E u \in {3, 4, 6}, data \in LeaveCreateBodies :
              create_leave_request(u, data)
    \/ \E u \in {1, 3, 4}, id \in LeaveIds, data \in LeaveUpdateBodies :
           update_leave_request(u, id, data)
    \/ \E u \in {1, 3, 4}, id \in LeaveIds : cancel_leave_request(u, id)
    \/ \E u \in 1 .. 6, id \in LeaveIds :
           leave_action(u, id, [action |-> "approve"])
    \/ \E id \in LeaveIds : leave_action(1, id, [action |-> "reject", note |-> "no"])
    \/ \E u \in {1, 4}, id \in LeaveIds :
           leave_action(u, id, [action |-> "hold"])
    \/ leave_action(1, MaxLeave + 1, [action |-> "approve"])
    \/ DayPasses

SpecLeave == Empty /\ [][NextLeave]_vars

(***************************************************************************)
(* C6. leave_action changes a leave request only while its status is       *)
(* PENDING, to APPROVED or REJECTED; once a request is REJECTED or         *)
(* CANCELLED no later leave_action, cancel_leave_request or                *)
(* update_leave_request changes its status.                                *)
(***************************************************************************)
C6_Step ==
    /\ Len(leave_requests') >= Len(leave_requests)
    /\ \A id \in DOMAIN leave_requests :
          /\ (req'.op = "leave_action" /\ leave_requests'[id] # leave_requests[id])
                => /\ leave_requests[id].status = PENDING
                   /\ leave_requests'[id].status \in {APPROVED, REJECTED}
          /\ leave_requests[id].status \in {REJECTED, CANCELLED}
                => leave_requests'[id].status = leave_requests[id].status

C6_LeaveStatusTransitions == [][C6_Step]_vars

\* a rejected request on which a further leave_action of the admin was
\* answered 400
C6_Witness ==
    /\ req.op = "leave_action" /\ req.user = 1 /\ req.id = 1 /\ resp = 400
    /\ Len(leave_requests) >= 1
    /\ leave_requests[1].status = REJECTED

(***************************************************************************)
(* C7. cancel_leave_request answers 400 and leaves the status unchanged    *)
(* whenever the request is already approved, rejected or cancelled; it     *)
(* moves a request to CANCELLED only from PENDING.                         *)
(***************************************************************************)
C7_Step ==
    \A id \in DOMAIN leave_requests :
        (req'.op = "cancel_leave_request" /\ req'.id = id
         /\ leave_requests[id].status \in {APPROVED, REJECTED, CANCELLED}
         /\ employees[leave_requests[id].employee_id].user_id = req'.user)
        => resp' = 400 /\ leave_requests'[id].status = leave_requests[id].status

C7_CancelOnlyFromPending == [][C7_Step]_vars

(***************************************************************************)
(* C8 as written. update_leave_request answers 400 to a request that is    *)
(* not PENDING and 403 to any caller other than the owner.                 *)
(***************************************************************************)
C8_AsWritten ==
    (req.op = "update_leave_request" /\ req.id \in DOMAIN leave_requests) =>
        /\ leave_requests[req.id].status # PENDING => resp = 400
        /\ employees[leave_requests[req.id].employee_id].user_id # req.user
              => resp = 403

(***************************************************************************)
(* C8. update_leave_request changes nothing unless the request is PENDING  *)
(* and the caller is the employee who owns it: a request that is not       *)
(* PENDING is answered 400 whoever calls, and on a PENDING request any     *)
(* caller other than the owner (admin, HR and the manager of the owner     *)
(* included) is answered 403; in both cases no row changes.                *)
(***************************************************************************)
C8_Step ==
    req'.op = "update_leave_request" =>
        /\ Len(leave_requests') = Len(leave_requests)
        /\ \A id \in DOMAIN leave_requests :
              LET row == leave_requests[id]
                  owner == employees[row.employee_id].user_id
              IN /\ (req'.id = id /\ row.status # PENDING)
                      => resp' = 400 /\ leave_requests' = leave_requests
                 /\ (req'.id = id /\ row.status = PENDING /\ owner # req'.user)
                      => resp' = 403 /\ leave_requests' = leave_requests
                 /\ leave_requests'[id] # row
                      => /\ req'.id = id /\ resp' = 200
                         /\ row.status = PENDING /\ owner = req'.user
                         /\ leave_requests'[id].status = PENDING
                         /\ leave_requests'[id].employee_id = row.employee_id

C8_UpdateOnlyPendingByOwner == [][C8_Step]_vars

\* the manager of the owner was answered 403 on a PENDING request of his
\* report, which the report had updated before
C8_Witness ==
    /\ req = RequestOn("update_leave_request", 3, 1) /\ resp = 403
    /\ Len(leave_requests) >= 1
    /\ leave_requests[1].employee_id = 4
    /\ leave_requests[1].status = PENDING
    /\ leave_requests[1].leave_type = "sick"

(***************************************************************************)
(* C10 as written. A caller with role EMPLOYEE, and a MANAGER acting on a  *)
(* request of someone who is not a direct report, is answered 403.         *)
(***************************************************************************)
C10_AsWritten ==
    (req.op = "leave_action" /\ req.id \in DOMAIN leave_requests) =>
        LET row == leave_requests[req.id]
        IN (\/ users[req.user].role = EMPLOYEE
            \/ /\ users[req.user].role = MANAGER
               /\ \A e \in DOMAIN employees :
                     employees[e].user_id = req.user
                       => employees[row.employee_id].manager_id # e)
           => resp = 403

(***************************************************************************)
(* C10. leave_action changes a leave request only when the caller is ADMIN *)
(* or HR, or is a MANAGER whose employee id equals the manager_id of the   *)
(* employee who asked. A caller with role EMPLOYEE, and a MANAGER acting   *)
(* on a request of someone who is not a direct report (the own request     *)
(* included), leaves every request unchanged and is answered 403 when the  *)
(* request is PENDING, the body valid and the caller has an employee       *)
(* profile (400 when it is not PENDING or the body is invalid, 404 without *)
(* a profile).                                                             *)
(***************************************************************************)
C10_Step ==
    req'.op = "leave_action" =>
        \A id \in DOMAIN leave_requests :
            LET row == leave_requests[id]
                role == users[req'.user].role
                mine == {e \in DOMAIN employees :
                            employees[e].user_id = req'.user}
                manages == \E e \in mine :
                              employees[row.employee_id].manager_id = e
                allowed == role \in {ADMIN, HR} \/ (role = MANAGER /\ manages)
            IN /\ leave_requests'[id] # row => req'.id = id /\ allowed
               /\ (req'.id = id /\ ~allowed) =>
                     /\ leave_requests' = leave_requests
                     /\ resp' = IF row.status # PENDING THEN 400
                                ELSE IF ~LeaveActionValid(req'.body) THEN 400
                                ELSE IF mine = {} THEN 404 ELSE 403

C10_OnlyReviewersAct == [][C10_Step]_vars

\* the manager was answered 403 on his own PENDING request
C10_Witness ==
    /\ resp = 403 /\ req.op = "leave_action" /\ req.user = 3
    /\ req.id \in DOMAIN leave_requests
    /\ leave_requests[req.id].employee_id = 3
    /\ leave_requests[req.id].status = PENDING

(***************************************************************************)
(* Leave requests of two employees over a few days, with every date range  *)
(* the create and update bodies can carry.                                 *)
(***************************************************************************)
OverlapDays == 1 .. 3

OverlapCreateBodies ==
    { [leave_type |-> "annual", start_date |-> s, end_date |-> e, days |-> 1] :
          s \in OverlapDays, e \in OverlapDays }

\* the one request the manager files: every day of the period
WholePeriod ==
    [leave_type |-> "annual", start_date |-> 1, end_date |-> 3, days |-> 3]

OverlapUpdateBodies ==
    { [start_date |-> s] : s \in OverlapDays }
        \cup { [end_date |-> e] : e \in OverlapDays }

NextOverlap ==
    \/ /\ Len(leave_requests) < MaxOverlapLeave
       /\ \/ \E data \in OverlapCreateBodies : create_leave_request(4, data)
          \/ create_leave_request(3, WholePeriod)
    \/ \E id \in 1 .. MaxOverlapLeave, data \in OverlapUpdateBodies :
           update_leave_request(4, id, data)
    \/ \E id \in 1 .. MaxOverlapLeave : cancel_leave_request(4, id)
    \/ \E id \in 1 .. MaxOverlapLeave :
           leave_action(1, id, [action |-> "approve"])

SpecOverlap == Empty /\ [][NextOverlap]_vars

\* the two requests hold a day in common
ShareDay(a, b) ==
    \E d \in a.start_date .. a.end_date :
        b.start_date <= d /\ d <= b.end_date

(***************************************************************************)
(* C9. When create_leave_request and update_leave_request run one at a     *)
(* time, an employee never has two leave requests that are both PENDING or *)
(* APPROVED and whose date ranges share a day.                             *)
(***************************************************************************)
C9_NoOverlappingLeave ==
    \A i, j \in DOMAIN leave_requests :
        (/\ i # j
         /\ leave_requests[i].employee_id = leave_requests[j].employee_id
         /\ leave_requests[i].status \in {PENDING, APPROVED}
         /\ leave_requests[j].status \in {PENDING, APPROVED})
        => ~ShareDay(leave_requests[i], leave_requests[j])

\* an employee with two live requests on adjacent days, after a create or
\* an update that would have made them overlap was answered 400
C9_Witness ==
    /\ Len(leave_requests) >= 2
    /\ leave_requests[1].employee_id = 4 /\ leave_requests[2].employee_id = 4
    /\ leave_requests[1].status = APPROVED /\ leave_requests[2].status = PENDING
    /\ leave_requests[1].end_date + 1 = leave_requests[2].start_date
    /\ req.op \in {"create_leave_request", "update_leave_request"}
    /\ req.user = 4 /\ resp = 400

(***************************************************************************)
(* The response helpers, and the handlers that write several rows.         *)
(***************************************************************************)
\* what Flask answers when a view raises: the errorhandler(500) of the app
Raised == 500

\* error_response(message, status_code=400), called with the positional
\* arguments args: a third argument is a TypeError
error_response(args) ==
    IF Len(args) > 2 THEN Raised
    ELSE IF Len(args) = 2 THEN args[2] ELSE 400

\* success_response(data, status_code=200), called the same way
success_response(args) ==
    IF Len(args) > 2 THEN Raised
    ELSE IF Len(args) = 2 THEN args[2] ELSE 200

\* not_leave, less the tables the create handlers write
not_written == <<now, attendance, leave_requests, payrolls, proc, dumped>>

\* GET /payroll/payrolls/<payroll_id>.  The view returns the pair
\* (body, dict) when it succeeds: Flask takes the dict for headers and
\* answers 200, unless a value of the dict is refused as a header value.
get_payroll(u, id) ==
    /\ req' = RequestOn("get_payroll", u, id)
    /\ UNCHANGED <<now, users, employees, attendance, leave_requests, projects,
                   project_members, okrs, key_results, payrolls, proc, dumped>>
    /\ IF id \notin DOMAIN payrolls
       THEN resp' = 404
       ELSE IF payrolls[id].status \notin PayrollStatusNames
       THEN resp' = Raised
       ELSE IF /\ RoleOf(u) \notin {ADMIN, HR}
               /\ employees[payrolls[id].employee_id].user_id # u
       THEN resp' = error_response(<<"Access denied", "no permission", 403>>)
       ELSE resp' \in {200, Raised}

OKRTimeframes == {"quarterly", "annual", "custom"}
OKRStatuses == {"draft", "active", "completed", "cancelled"}

\* OKRCreateSchema().load(data) succeeds
OKRCreateValid(data) ==
    /\ {"employee_id", "title", "start_date", "end_date"} \subseteq DOMAIN data
    /\ data.start_date >= today
    /\ "timeframe" \in DOMAIN data => data.timeframe \in OKRTimeframes
    /\ "status" \in DOMAIN data => data.status \in OKRStatuses
    /\ "key_results" \in DOMAIN data =>
          \A i \in DOMAIN data.key_results :
              /\ {"title", "target_value"} \subseteq DOMAIN data.key_results[i]
              /\ data.key_results[i].target_value > 0

\* employee.team_members: the ids of the employees managed by e
team_member_ids(e) == {m \in DOMAIN employees : employees[m].manager_id = e}

\* the rows the loop over data['key_results'] adds for OKR okr_id
KeyResultRows(okr_id, data) ==
    IF "key_results" \in DOMAIN data
    THEN { [id |-> Cardinality(key_results) + i,
            okr_id |-> okr_id, n |-> i, title |-> data.key_results[i].title,
            target_value |-> data.key_results[i].target_value,
            current_value |-> 0, progress |-> 0] :
              i \in DOMAIN data.key_results }
    ELSE {}

\* POST /okr/okrs.  fault names the statement that raises, if one does:
\* "commit1" the commit of the OKR, "commit2" the key result loop or its
\* commit.  What was committed before the fault stays in the tables.
create_okr(u, data, fault) ==
    LET employee == EmployeeOfUser(u)
        new_okr == [employee_id |-> data.employee_id, title |-> data.title,
                    timeframe |-> Get(data, "timeframe", "quarterly"),
                    status |-> Get(data, "status", "draft"), progress |-> 0,
                    created_by |-> employee]
        okr_id == Len(okrs) + 1
        rows == KeyResultRows(okr_id, data)
    IN /\ req' = RequestWith("create_okr", u, None, data)
       /\ UNCHANGED <<users, employees, projects, project_members>>
       /\ UNCHANGED not_written
       /\ IF RoleOf(u) \notin {ADMIN, HR, MANAGER}
          THEN /\ resp' = error_response(<<"Permission denied", 403>>)
               /\ UNCHANGED <<okrs, key_results>>
          ELSE IF employee = None
          THEN /\ resp' = error_response(<<"Employee record not found", "", 404>>)
               /\ UNCHANGED <<okrs, key_results>>
          ELSE IF ~OKRCreateValid(data)
          THEN /\ resp' = error_response(<<"Validation error", "e", 400>>)
               /\ UNCHANGED <<okrs, key_results>>
          ELSE IF data.employee_id \notin DOMAIN employees
          THEN /\ resp' = error_response(<<"Target employee not found", "", 404>>)
               /\ UNCHANGED <<okrs, key_results>>
          ELSE IF /\ RoleOf(u) = MANAGER
                  /\ data.employee_id # employee
                  /\ data.employee_id \notin team_member_ids(employee)
          THEN /\ resp' = error_response(<<"Access denied", "team", 403>>)
               /\ UNCHANGED <<okrs, key_results>>
          ELSE IF fault = "commit1"
          THEN resp' = Raised /\ UNCHANGED <<okrs, key_results>>
          ELSE IF fault = "commit2" /\ rows # {}
          THEN /\ okrs' = Append(okrs, new_okr)
               /\ UNCHANGED key_results
               /\ resp' = Raised
          ELSE /\ okrs' = Append(okrs, new_okr)
               /\ key_results' = key_results \cup rows
               /\ resp' = success_response(<<"OKR created successfully",
                                             "dump", 201>>)

\* EmployeeCreateSchema().load(data) succeeds
EmployeeCreateValid(data) ==
    /\ {"first_name", "last_name", "employee_id", "email", "date_of_joining"}
          \subseteq DOMAIN data
    /\ data.date_of_joining <= today

\* POST /employees.  fault names the statement that raises, if one does:
\* "flush" after the user was added, "commit" the one commit of the handler
create_employee(u, data, fault) ==
    LET user == [email |-> data.email, role |-> EMPLOYEE]
        employee == EmployeeRow(Len(users) + 1, data.employee_id,
                                Get(data, "manager_id", None), data)
    IN /\ req' = RequestWith("create_employee", u, None, data)
       /\ UNCHANGED <<projects, project_members, okrs, key_results>>
       /\ UNCHANGED not_written
       /\ IF ~admin_or_hr(u)
          THEN /\ resp' = error_response(<<"Admin or HR role required", 403>>)
               /\ UNCHANGED <<users, employees>>
          ELSE IF ~EmployeeCreateValid(data)
          THEN /\ resp' = error_response(<<"messages", 400>>)
               /\ UNCHANGED <<users, employees>>
          ELSE IF \E i \in DOMAIN users : users[i].email = data.email
          THEN /\ resp' = error_response(<<"Email already exists", 400>>)
               /\ UNCHANGED <<users, employees>>
          ELSE IF \E e \in DOMAIN employees :
                     employees[e].employee_id = data.employee_id
          THEN /\ resp' = error_response(<<"Employee ID already exists", 400>>)
               /\ UNCHANGED <<users, employees>>
          ELSE IF fault \in {"flush", "commit"}
          THEN resp' = Raised /\ UNCHANGED <<users, employees>>
          ELSE /\ users' = Append(users, user)
               /\ employees' = Append(employees, employee)
               /\ resp' = success_response(<<"dump", 201>>)

ProjectStatuses ==
    {"planning", "in_progress", "on_hold", "completed", "cancelled"}

\* ProjectCreateSchema().load(data) succeeds
ProjectCreateValid(data) ==
    /\ "name" \in DOMAIN data
    /\ "status" \in DOMAIN data => data.status \in ProjectStatuses
    /\ "members" \in DOMAIN data =>
          \A i \in DOMAIN data.members : "employee_id" \in DOMAIN data.members[i]

\* uix_project_employee: no two of the rows name one employee of a project
uix_project_employee(rows) ==
    \A i, j \in DOMAIN rows :
        (rows[i].project_id = rows[j].project_id
         /\ rows[i].employee_id = rows[j].employee_id) => i = j

\* POST /projects.  fault names the statement that raises, if one does:
\* "flush" after the project was added, "commit" the one commit
create_project(u, data, fault) ==
    LET employee == EmployeeOfUser(u)
        project_id == Len(projects) + 1
        project == [name |-> data.name,
                    status |-> Get(data, "status", "planning"),
                    created_by |-> employee]
        members_data == Get(data, "members", <<>>)
        creator_member == [project_id |-> project_id, employee_id |-> employee,
                           role |-> "project manager"]
        rows == <<creator_member>> \o
                [i \in DOMAIN members_data |->
                    [project_id |-> project_id,
                     employee_id |-> members_data[i].employee_id,
                     role |-> Get(members_data[i], "role", "member")]]
    IN /\ req' = RequestWith("create_project", u, None, data)
       /\ UNCHANGED <<users, employees, okrs, key_results>>
       /\ UNCHANGED not_written
       /\ IF ~ProjectCreateValid(data)
          THEN /\ resp' = error_response(<<"messages", 400>>)
               /\ UNCHANGED <<projects, project_members>>
          ELSE IF employee = None
          THEN /\ resp' = error_response(<<"Employee profile not found", 404>>)
               /\ UNCHANGED <<projects, project_members>>
          ELSE IF fault \in {"flush", "commit"} \/ ~uix_project_employee(rows)
          THEN resp' = Raised /\ UNCHANGED <<projects, project_members>>
          ELSE /\ projects' = Append(projects, project)
               /\ project_members' =
                     project_members \cup {rows[i] : i \in DOMAIN rows}
               /\ resp' = success_response(<<"dump", 201>>)

(***************************************************************************)
(* The payroll, OKR, employee and project requests of the model.           *)
(***************************************************************************)
OkrBodies ==
    { [employee_id |-> 4, title |-> "ship", start_date |-> 1, end_date |-> 2,
       key_results |-> << [title |-> "k1", target_value |-> 10],
                          [title |-> "k2", target_value |-> 5] >>],
      [employee_id |-> 5, title |-> "hire", start_date |-> 1, end_date |-> 2],
      [employee_id |-> 9, title |-> "hire", start_date |-> 1, end_date |-> 2],
      [employee_id |-> 4, start_date |-> 1, end_date |-> 2],
      [employee_id |-> 4, title |-> "ship", start_date |-> 1, end_date |-> 2,
       key_results |-> << [title |-> "k1", target_value |-> 0] >>] }

EmployeeBodies ==
    { [first_name |-> "a", last_name |-> "b", employee_id |-> id,
       email |-> mail, date_of_joining |-> 1, manager_id |-> 3] :
          id \in {"E4", "E7"}, mail \in {"dev@x", "seven@x"} }
        \cup { [first_name |-> "a", employee_id |-> "E7", email |-> "seven@x"] }

ProjectBodies ==
    { [name |-> "site"],
      [name |-> "site", members |-> << [employee_id |-> 4] >>],
      [name |-> "site", members |-> << [employee_id |-> 3, role |-> "lead"] >>],
      [status |-> "planning"] }

NextApi ==
    \/ \E u \in {1, 3, 4}, id \in 1 .. 2 : get_payroll(u, id)
    \/ /\ Len(okrs) < MaxOkrs
       /\ \E u \in {1, 3, 4}, data \in OkrBodies,
             fault \in {"none", "commit1", "commit2"} :
              create_okr(u, data, fault)
    \/ /\ Len(users) < Len(DirectoryUsers) + MaxNewEmployees
       /\ \E u \in {2, 3}, data \in EmployeeBodies,
             fault \in {"none", "flush", "commit"} :
              create_employee(u, data, fault)
    \/ /\ Len(projects) < MaxProjects
       /\ \E u \in {3, 6}, data \in ProjectBodies,
             fault \in {"none", "flush", "commit"} :
              create_project(u, data, fault)

SpecApi == Empty /\ [][NextApi]_vars

(***************************************************************************)
(* C4. In get_payroll and create_okr, as in the core handlers, a request   *)
(* that fails validation is answered 400, one that fails an authorization  *)
(* check is answered 401 or 403, and one that names a missing resource is  *)
(* answered 404; none of them is answered 500.                             *)
(***************************************************************************)
C4_ErrorsNever500 ==
    LET role == users[req.user].role
        mine == EmployeeOfUser(req.user)
    IN /\ req.op = "get_payroll" =>
              /\ req.id \notin DOMAIN payrolls => resp = 404
              /\ (/\ req.id \in DOMAIN payrolls
                  /\ role \notin {ADMIN, HR}
                  /\ employees[payrolls[req.id].employee_id].user_id
                        # req.user)
                 => resp \in {401, 403}
       /\ req.op = "create_okr" =>
              /\ role \notin {ADMIN, HR, MANAGER} => resp \in {401, 403}
              /\ (role \in {ADMIN, HR, MANAGER} /\ mine # None) =>
                    /\ ~OKRCreateValid(req.body) => resp = 400
                    /\ (/\ OKRCreateValid(req.body)
                        /\ req.body.employee_id \notin DOMAIN employees)
                       => resp = 404
                    /\ (/\ OKRCreateValid(req.body)
                        /\ req.body.employee_id \in DOMAIN employees
                        /\ role = MANAGER
                        /\ req.body.employee_id # mine
                        /\ employees[req.body.employee_id].manager_id # mine)
                       => resp \in {401, 403}

(***************************************************************************)
(* C5. Every handler that writes commits once, at its end: if it fails     *)
(* part-way none of its writes persist.  create_employee stores the user   *)
(* and the employee together or neither, create_project the project and    *)
(* all its memberships together or none, create_okr the OKR and all its    *)
(* key results together or none.                                           *)
(***************************************************************************)
C5_Step ==
    /\ req'.op = "create_employee" =>
          \/ users' = users /\ employees' = employees
          \/ /\ resp' = 201
             /\ Len(users') = Len(users) + 1
             /\ Len(employees') = Len(employees) + 1
             /\ employees'[Len(employees')].user_id = Len(users')
    /\ req'.op = "create_project" =>
          \/ projects' = projects /\ project_members' = project_members
          \/ /\ resp' = 201
             /\ Len(projects') = Len(projects) + 1
             /\ Cardinality({m \in project_members' :
                               m.project_id = Len(projects')})
                  = 1 + Len(Get(req'.body, "members", <<>>))
    /\ req'.op = "create_okr" =>
          \/ okrs' = okrs /\ key_results' = key_results
          \/ /\ resp' = 201
             /\ Len(okrs') = Len(okrs) + 1
             /\ Cardinality({k \in key_results' : k.okr_id = Len(okrs')})
                  = Len(Get(req'.body, "key_results", <<>>))

C5_WritesAllOrNone == [][C5_Step]_vars

(***************************************************************************)
(* The payroll handlers.                                                   *)
(***************************************************************************)
\* [ps.value for ps in PayrollStatus]: what the schemas accept for status
PayrollStatusValues == {"draft", "processed", "paid", "cancelled"}

\* what the payroll handlers never touch
not_payroll == <<now, users, employees, attendance, leave_requests, projects,
                 project_members, okrs, key_results, proc, dumped>>

\* PayrollUpdateSchema().load(data) succeeds
PayrollUpdateValid(data) ==
    /\ DOMAIN data \subseteq {"net_amount", "status", "payment_date", "notes"}
    /\ "net_amount" \in DOMAIN data => data.net_amount >= 0
    /\ "status" \in DOMAIN data => data.status \in PayrollStatusValues

\* "if payroll.status == PayrollStatus.PAID"
IsPaid_never(row) == FALSE
IsPaid(row) == row.status = PayrollStatus.PAID

\* what a payroll view answers once its commit is done: it returns the pair
\* (body, dict), as get_payroll does
PayrollDone == {200, Raised}

\* PUT /payroll/payrolls/<payroll_id>.  A status of the body is a string
\* that is no member name: the database either refuses it (stored is FALSE,
\* the commit raises) or keeps it as it is, and then the row cannot be
\* loaded again, not even for the answer.
update_payroll(u, id, data, stored) ==
    /\ req' = RequestWith("update_payroll", u, id, data)
    /\ UNCHANGED not_payroll
    /\ IF RoleOf(u) \notin {ADMIN, HR}
       THEN resp' = error_response(<<"Permission denied", 403>>)
            /\ UNCHANGED payrolls
       ELSE IF id \notin DOMAIN payrolls
       THEN resp' = 404 /\ UNCHANGED payrolls
       ELSE IF payrolls[id].status \notin PayrollStatusNames
       THEN resp' = Raised /\ UNCHANGED payrolls
       ELSE IF IsPaid(payrolls[id])
       THEN resp' = error_response(<<"Cannot update", "paid", 400>>)
            /\ UNCHANGED payrolls
       ELSE IF ~PayrollUpdateValid(data)
       THEN resp' = error_response(<<"Validation error", "e", 400>>)
            /\ UNCHANGED payrolls
       ELSE IF "status" \in DOMAIN data
       THEN /\ resp' = Raised
            /\ IF stored
               THEN payrolls' =
                       [payrolls EXCEPT ![id] = SetFields(payrolls[id], data)]
               ELSE UNCHANGED payrolls
       ELSE /\ payrolls' =
                  [payrolls EXCEPT ![id] = SetFields(payrolls[id], data)]
            /\ resp' \in PayrollDone

\* "if payroll.status != PayrollStatus.DRAFT"
NotDraft_never(row) == FALSE
NotDraft(row) == row.status # PayrollStatus.DRAFT

\* POST /payroll/payrolls/<payroll_id>/process
process_payroll(u, id) ==
    /\ req' = RequestOn("process_payroll", u, id)
    /\ UNCHANGED not_payroll
    /\ IF RoleOf(u) \notin {ADMIN, HR}
       THEN resp' = error_response(<<"Permission denied", 403>>)
            /\ UNCHANGED payrolls
       ELSE IF id \notin DOMAIN payrolls
       THEN resp' = 404 /\ UNCHANGED payrolls
       ELSE IF payrolls[id].status \notin PayrollStatusNames
       THEN resp' = Raised /\ UNCHANGED payrolls
       ELSE IF NotDraft(payrolls[id])
       THEN resp' = error_response(<<"Invalid status", "draft only", 400>>)
            /\ UNCHANGED payrolls
       ELSE /\ payrolls' =
                  [payrolls EXCEPT ![id].status = PayrollStatus.PROCESSED]
            /\ resp' \in PayrollDone

\* "if payroll.status != PayrollStatus.PROCESSED"
NotProcessed(row) == row.status # PayrollStatus.PROCESSED

\* POST /payroll/payrolls/<payroll_id>/pay
pay_payroll(u, id) ==
    /\ req' = RequestOn("pay_payroll", u, id)
    /\ UNCHANGED not_payroll
    /\ IF RoleOf(u) \notin {ADMIN, HR}
       THEN resp' = error_response(<<"Permission denied", 403>>)
            /\ UNCHANGED payrolls
       ELSE IF id \notin DOMAIN payrolls
       THEN resp' = 404 /\ UNCHANGED payrolls
       ELSE IF payrolls[id].status \notin PayrollStatusNames
       THEN resp' = Raised /\ UNCHANGED payrolls
       ELSE IF NotProcessed(payrolls[id])
       THEN resp' = error_response(<<"Invalid status", "processed only", 400>>)
            /\ UNCHANGED payrolls
       ELSE /\ payrolls' = [payrolls EXCEPT ![id].status = PayrollStatus.PAID,
                                            ![id].payment_date = today]
            /\ resp' \in PayrollDone

\* POST /payroll/payrolls/<payroll_id>/cancel
cancel_payroll(u, id) ==
    /\ req' = RequestOn("cancel_payroll", u, id)
    /\ UNCHANGED not_payroll
    /\ IF RoleOf(u) \notin {ADMIN, HR}
       THEN resp' = error_response(<<"Permission denied", 403>>)
            /\ UNCHANGED payrolls
       ELSE IF id \notin DOMAIN payrolls
       THEN resp' = 404 /\ UNCHANGED payrolls
       ELSE IF payrolls[id].status \notin PayrollStatusNames
       THEN resp' = Raised /\ UNCHANGED payrolls
       ELSE IF IsPaid(payrolls[id])
       THEN resp' = error_response(<<"Invalid status", "paid", 400>>)
            /\ UNCHANGED payrolls
       ELSE /\ payrolls' =
                  [payrolls EXCEPT ![id].status = PayrollStatus.CANCELLED]
            /\ resp' \in PayrollDone

PayrollIds == 1 .. 2

PayrollUpdateBodies ==
    { [net_amount |-> 2], [net_amount |-> 0 - 1], [status |-> "paid"],
      [status |-> "draft", notes |-> "redo"] }

NextPayroll ==
    \/ \E u \in {2, 4}, id \in PayrollIds, data \in PayrollUpdateBodies,
          stored \in BOOLEAN :
           update_payroll(u, id, data, stored)
    \/ \E u \in {1, 4}, id \in PayrollIds : process_payroll(u, id)
    \/ \E u \in {1, 4}, id \in PayrollIds : pay_payroll(u, id)
    \/ \E u \in {2, 4}, id \in PayrollIds : cancel_payroll(u, id)
    \/ DayPasses

SpecPayroll == Empty /\ [][NextPayroll]_vars

\* the answer is an error
IsError(status) == status >= 400

(***************************************************************************)
(* C11. process_payroll changes a payroll only when its status is DRAFT,   *)
(* setting PROCESSED and nothing else, and pay_payroll only when its       *)
(* status is PROCESSED, setting PAID and the payment date; called on a     *)
(* payroll in any other status each is answered with an error and leaves   *)
(* the payroll unchanged.                                                  *)
(***************************************************************************)
C11_Step ==
    /\ req'.op = "process_payroll" =>
          \A id \in DOMAIN payrolls :
              /\ payrolls'[id] # payrolls[id] =>
                    /\ req'.id = id
                    /\ payrolls[id].status = "DRAFT"
                    /\ payrolls'[id] = [payrolls[id] EXCEPT !.status = "PROCESSED"]
              /\ (req'.id = id /\ payrolls[id].status # "DRAFT") =>
                    IsError(resp') /\ payrolls' = payrolls
    /\ req'.op = "pay_payroll" =>
          \A id \in DOMAIN payrolls :
              /\ payrolls'[id] # payrolls[id] =>
                    /\ req'.id = id
                    /\ payrolls[id].status = "PROCESSED"
                    /\ payrolls'[id] = [payrolls[id] EXCEPT !.status = "PAID",
                                                           !.payment_date = today]
              /\ (req'.id = id /\ payrolls[id].status # "PROCESSED") =>
                    IsError(resp') /\ payrolls' = payrolls

C11_PayrollStepsInOrder == [][C11_Step]_vars

\* a payroll that was processed and then paid, after which a further
\* process_payroll was answered with an error
C11_Witness ==
    /\ req = RequestOn("process_payroll", 1, 1) /\ IsError(resp)
    /\ payrolls[1].status = "PAID"
    /\ payrolls[1].payment_date = today

(***************************************************************************)
(* C12. Once the status of a payroll is PAID, no later update_payroll,     *)
(* process_payroll, pay_payroll or cancel_payroll request changes any of   *)
(* its fields.                                                             *)
(***************************************************************************)
C12_Step ==
    \A id \in DOMAIN payrolls :
        payrolls[id].status = "PAID" => payrolls'[id] = payrolls[id]

C12_PaidIsFinal == [][C12_Step]_vars

\* a paid payroll on which an update was asked for and refused
C12_Witness ==
    /\ req.op = "update_payroll" /\ req.user = 2 /\ req.id = 1
    /\ req.body = [net_amount |-> 2]
    /\ IsError(resp)
    /\ payrolls[1].status = "PAID"
    /\ payrolls[1].net_amount = 1

(***************************************************************************)
(* The OKR handlers that follow create_okr.                                *)
(***************************************************************************)
\* OKRStatus and OKRTimeframe: a member is held in the column by its name
OKRStatus ==
    [DRAFT |-> "DRAFT", ACTIVE |-> "ACTIVE", COMPLETED |-> "COMPLETED",
     CANCELLED |-> "CANCELLED"]
OKRTimeframe ==
    [QUARTERLY |-> "QUARTERLY", ANNUAL |-> "ANNUAL", CUSTOM |-> "CUSTOM"]

\* OKR.query.get(id) can build the row: both Enum columns hold member names
OkrLoads(okr) ==
    /\ okr.status \in {OKRStatus[k] : k \in DOMAIN OKRStatus}
    /\ okr.timeframe \in {OKRTimeframe[k] : k \in DOMAIN OKRTimeframe}

\* what the OKR handlers never touch
not_okr == <<now, users, employees, attendance, leave_requests, projects,
             project_members, payrolls, proc, dumped>>

\* the permission check of update_okr, complete_okr and update_key_result
\* refuses the caller: neither admin nor HR, and the OKR is not the caller's
\* own nor, for a manager, of the caller's team
OkrDenied(u, okr) ==
    LET employee == EmployeeOfUser(u)
    IN /\ RoleOf(u) \notin {ADMIN, HR}
       /\ okr.employee_id # employee
       /\ RoleOf(u) = MANAGER => okr.employee_id \notin team_member_ids(employee)

\* the same check in activate_okr and cancel_okr, made of managers only
OkrDeniedManager(u, okr) == RoleOf(u) = MANAGER /\ OkrDenied(u, okr)

\* the check reads employee.team_members or employee.id of a caller without
\* an employee profile: AttributeError
NoProfileRaises(u) == RoleOf(u) \notin {ADMIN, HR} /\ EmployeeOfUser(u) = None

\* "if okr.status == OKRStatus.COMPLETED"
IsCompleted_never(okr) == FALSE
IsCompleted(okr) == okr.status = OKRStatus.COMPLETED

\* OKRUpdateSchema().load(data) succeeds
OKRUpdateValid(data) ==
    /\ DOMAIN data \subseteq {"title", "description", "timeframe", "start_date",
                              "end_date", "status", "progress"}
    /\ "timeframe" \in DOMAIN data => data.timeframe \in OKRTimeframes
    /\ "status" \in DOMAIN data => data.status \in OKRStatuses
    /\ "progress" \in DOMAIN data => data.progress \in 0 .. 100

\* PUT /okr/okrs/<okr_id>.  A status or timeframe of the body is a string
\* that is no member name: the database refuses it (stored is FALSE) or
\* keeps it, and then the row cannot be loaded again.
update_okr(u, id, data, stored) ==
    /\ req' = RequestWith("update_okr", u, id, data)
    /\ UNCHANGED not_okr
    /\ UNCHANGED key_results
    /\ IF EmployeeOfUser(u) = None
       THEN resp' = error_response(<<"Employee record not found", "", 404>>)
            /\ UNCHANGED okrs
       ELSE IF id \notin DOMAIN okrs
       THEN resp' = 404 /\ UNCHANGED okrs
       ELSE IF ~OkrLoads(okrs[id])
       THEN resp' = Raised /\ UNCHANGED okrs
       ELSE IF OkrDenied(u, okrs[id])
       THEN resp' = error_response(<<"Access denied", "own or team", 403>>)
            /\ UNCHANGED okrs
       ELSE IF IsCompleted(okrs[id])
       THEN resp' = error_response(<<"Cannot update", "completed", 400>>)
            /\ UNCHANGED okrs
       ELSE IF ~OKRUpdateValid(data)
       THEN resp' = error_response(<<"Validation error", "e", 400>>)
            /\ UNCHANGED okrs
       ELSE IF {"status", "timeframe"} \cap DOMAIN data # {}
       THEN /\ resp' = Raised
            /\ IF stored
               THEN okrs' = [okrs EXCEPT ![id] = SetFields(okrs[id], data)]
               ELSE UNCHANGED okrs
       ELSE /\ okrs' = [okrs EXCEPT ![id] = SetFields(okrs[id], data)]
            /\ resp' \in {200, Raised}

\* the status changes of activate_okr, complete_okr and cancel_okr, once
\* the caller was let through: refused is the status check of the handler
OkrSetStatus(id, refused, status) ==
    IF id \notin DOMAIN okrs
    THEN resp' = 404 /\ UNCHANGED okrs
    ELSE IF ~OkrLoads(okrs[id])
    THEN resp' = Raised /\ UNCHANGED okrs
    ELSE IF refused
    THEN resp' = error_response(<<"Invalid status", "refused", 400>>)
         /\ UNCHANGED okrs
    ELSE /\ okrs' = [okrs EXCEPT ![id].status = status]
         /\ resp' \in {200, Raised}

\* POST /okr/okrs/<okr_id>/activate
activate_okr(u, id) ==
    /\ req' = RequestOn("activate_okr", u, id)
    /\ UNCHANGED not_okr
    /\ UNCHANGED key_results
    /\ IF RoleOf(u) \notin {ADMIN, HR, MANAGER}
       THEN resp' = error_response(<<"Permission denied", 403>>)
            /\ UNCHANGED okrs
       ELSE IF id \in DOMAIN okrs /\ OkrLoads(okrs[id]) /\ NoProfileRaises(u)
       THEN resp' = Raised /\ UNCHANGED okrs
       ELSE IF /\ id \in DOMAIN okrs /\ OkrLoads(okrs[id])
               /\ OkrDeniedManager(u, okrs[id])
       THEN resp' = error_response(<<"Access denied", "own or team", 403>>)
            /\ UNCHANGED okrs
       ELSE OkrSetStatus(id, id \in DOMAIN okrs
                               /\ okrs[id].status # OKRStatus.DRAFT,
                         OKRStatus.ACTIVE)

\* POST /okr/okrs/<okr_id>/complete
complete_okr(u, id) ==
    /\ req' = RequestOn("complete_okr", u, id)
    /\ UNCHANGED not_okr
    /\ UNCHANGED key_results
    /\ IF id \in DOMAIN okrs /\ OkrLoads(okrs[id]) /\ NoProfileRaises(u)
       THEN resp' = Raised /\ UNCHANGED okrs
       ELSE IF id \in DOMAIN okrs /\ OkrLoads(okrs[id]) /\ OkrDenied(u, okrs[id])
       THEN resp' = error_response(<<"Access denied", "own or team", 403>>)
            /\ UNCHANGED okrs
       ELSE OkrSetStatus(id, id \in DOMAIN okrs
                               /\ okrs[id].status # OKRStatus.ACTIVE,
                         OKRStatus.COMPLETED)

\* POST /okr/okrs/<okr_id>/cancel
cancel_okr(u, id) ==
    /\ req' = RequestOn("cancel_okr", u, id)
    /\ UNCHANGED not_okr
    /\ UNCHANGED key_results
    /\ IF RoleOf(u) \notin {ADMIN, HR, MANAGER}
       THEN resp' = error_response(<<"Permission denied", 403>>)
            /\ UNCHANGED okrs
       ELSE IF id \in DOMAIN okrs /\ OkrLoads(okrs[id]) /\ NoProfileRaises(u)
       THEN resp' = Raised /\ UNCHANGED okrs
       ELSE IF /\ id \in DOMAIN okrs /\ OkrLoads(okrs[id])
               /\ OkrDeniedManager(u, okrs[id])
       THEN resp' = error_response(<<"Access denied", "own or team", 403>>)
            /\ UNCHANGED okrs
       ELSE OkrSetStatus(id, id \in DOMAIN okrs /\ IsCompleted(okrs[id]),
                         OKRStatus.CANCELLED)

\* KeyResultUpdateSchema().load(data) succeeds
KeyResultUpdateValid(data) ==
    /\ DOMAIN data \subseteq
          {"title", "description", "target_value", "current_value", "unit"}
    /\ "target_value" \in DOMAIN data => data.target_value > 0
    /\ "current_value" \in DOMAIN data => data.current_value >= 0

\* min(100, int((current_value / target_value) * 100))
KeyResultProgress(kr) == Min({100, (kr.current_value * 100) \div kr.target_value})

RECURSIVE SumProgress(_)
\* sum(kr.progress for kr in all_key_results)
SumProgress(rows) ==
    IF rows = {} THEN 0
    ELSE LET kr == CHOOSE r \in rows : TRUE
         IN kr.progress + SumProgress(rows \ {kr})

\* PUT /okr/key-results/<key_result_id>
update_key_result(u, key_result_id, data) ==
    LET found == {k \in key_results : k.id = key_result_id}
        key_result == CHOOSE k \in found : TRUE
        okr == okrs[key_result.okr_id]
        set == SetFields(key_result, data)
        updated == IF "current_value" \in DOMAIN data /\ set.target_value > 0
                   THEN [set EXCEPT !.progress = KeyResultProgress(set)]
                   ELSE set
        all_key_results ==
            {k \in key_results : k.okr_id = key_result.okr_id /\ k # key_result}
                \cup {updated}
    IN /\ req' = RequestWith("update_key_result", u, key_result_id, data)
       /\ UNCHANGED not_okr
       /\ IF found = {}
          THEN resp' = 404 /\ UNCHANGED <<okrs, key_results>>
          ELSE IF ~OkrLoads(okr) \/ NoProfileRaises(u)
          THEN resp' = Raised /\ UNCHANGED <<okrs, key_results>>
          ELSE IF OkrDenied(u, okr)
          THEN /\ resp' = error_response(<<"Access denied", "own or team", 403>>)
               /\ UNCHANGED <<okrs, key_results>>
          ELSE IF IsCompleted(okr)
          THEN /\ resp' = error_response(<<"Cannot update", "completed", 400>>)
               /\ UNCHANGED <<okrs, key_results>>
          ELSE IF ~KeyResultUpdateValid(data)
          THEN /\ resp' = error_response(<<"Validation error", "e", 400>>)
               /\ UNCHANGED <<okrs, key_results>>
          ELSE /\ key_results' = (key_results \ {key_result}) \cup {updated}
               /\ okrs' = IF "current_value" \in DOMAIN data
                          THEN [okrs EXCEPT ![key_result.okr_id].progress =
                                   SumProgress(all_key_results)
                                       \div Cardinality(all_key_results)]
                          ELSE okrs
               /\ resp' \in {200, Raised}

(***************************************************************************)
(* One draft OKR of the employee with two key results, set by the manager. *)
(***************************************************************************)
DirectoryOkrs ==
    << [employee_id |-> 4, title |-> "ship",
        timeframe |-> OKRTimeframe.QUARTERLY, status |-> OKRStatus.DRAFT,
        progress |-> 0, created_by |-> 3] >>

DirectoryKeyResults ==
    { [id |-> i, okr_id |-> 1, n |-> i, title |-> "k", target_value |-> 10,
       current_value |-> 0, progress |-> 0] : i \in 1 .. 2 }

InitOkr ==
    /\ now = 1
    /\ users = DirectoryUsers
    /\ employees = DirectoryEmployees
    /\ attendance = {}
    /\ leave_requests = <<>>
    /\ projects = <<>>
    /\ project_members = {}
    /\ okrs = DirectoryOkrs
    /\ key_results = DirectoryKeyResults
    /\ payrolls = DirectoryPayrolls
    /\ proc = <<>>
    /\ dumped = {}
    /\ req = Request("none", None)
    /\ resp = None

OkrIds == 1 .. 2

OkrUpdateBodies ==
    { [title |-> "ship it", progress |-> 50], [progress |-> 101],
      [status |-> "completed"] }

KeyResultIds == {1, 3}

KeyResultUpdateBodies ==
    { [current_value |-> 5], [current_value |-> 20], [target_value |-> 0] }

NextOkr ==
    \/ \E u \in {4, 5, 6}, id \in OkrIds, data \in OkrUpdateBodies,
          stored \in BOOLEAN :
           update_okr(u, id, data, stored)
    \/ \E u \in {3, 4}, id \in OkrIds : activate_okr(u, id)
    \/ \E u \in {4, 6}, id \in OkrIds : complete_okr(u, id)
    \/ \E u \in {2, 5}, id \in OkrIds : cancel_okr(u, id)
    \/ \E u \in {4, 5}, id \in KeyResultIds,
          data \in KeyResultUpdateBodies :
           update_key_result(u, id, data)

SpecOkr == InitOkr /\ [][NextOkr]_vars

(***************************************************************************)
(* C13. Once the status of an OKR is COMPLETED, no later update_okr,       *)
(* activate_okr, complete_okr, cancel_okr or update_key_result request     *)
(* changes the fields of the OKR, its progress, or any field of one of its *)
(* key results.                                                            *)
(***************************************************************************)
C13_Step ==
    \A id \in DOMAIN okrs :
        okrs[id].status = "COMPLETED" =>
            /\ okrs'[id] = okrs[id]
            /\ {k \in key_results' : k.okr_id = id}
                  = {k \in key_results : k.okr_id = id}

C13_CompletedIsFrozen == [][C13_Step]_vars

\* a completed OKR with progress made, on which the owner asked to update a
\* key result and was refused
C13_Witness ==
    /\ req.op = "update_key_result" /\ req.user = 4 /\ req.id = 1
    /\ req.body = [current_value |-> 20]
    /\ resp >= 400
    /\ okrs[1].status = "COMPLETED"
    /\ okrs[1].progress = 25
    /\ \E k \in key_results : k.id = 1 /\ k.current_value = 5

(***************************************************************************)
(* update_employee.                                                        *)
(***************************************************************************)
\* what update_employee never touches
not_employees == <<now, users, attendance, leave_requests, projects,
                   project_members, okrs, key_results, payrolls, proc, dumped>>

\* EmployeeUpdateSchema().load(data) succeeds
EmployeeUpdateValid(data) ==
    /\ DOMAIN data \subseteq
          {"first_name", "last_name", "department_id", "position",
           "date_of_birth", "phone_number", "address", "gender", "manager_id",
           "profile_image"}
    /\ "gender" \in DOMAIN data => data.gender \in {"male", "female", "other", ""}
    /\ "date_of_birth" \in DOMAIN data => data.date_of_birth <= today

\* allowed_fields of a manager and of an employee
ManagerFields_all == {"first_name", "last_name", "phone_number", "address",
                      "position", "manager_id"}
ManagerFields == {"first_name", "last_name", "phone_number", "address"}
EmployeeFields == {"phone_number", "address"}

\* data after "for field in list(data.keys()): data.pop(field)"
Restrict(data, allowed_fields) ==
    [f \in DOMAIN data \cap allowed_fields |-> data[f]]

\* PUT /employees/<employee_id>
update_employee(u, employee_id, data) ==
    LET employee == employees[employee_id]
        me == EmployeeOfUser(u)
        kept == IF RoleOf(u) \in {ADMIN, HR} THEN data
                ELSE IF RoleOf(u) = MANAGER THEN Restrict(data, ManagerFields)
                ELSE Restrict(data, EmployeeFields)
    IN /\ req' = RequestWith("update_employee", u, employee_id, data)
       /\ UNCHANGED not_employees
       /\ IF employee_id \notin DOMAIN employees
          THEN /\ resp' = error_response(<<"Employee not found", 404>>)
               /\ UNCHANGED employees
          ELSE IF ~EmployeeUpdateValid(data)
          THEN /\ resp' = error_response(<<"messages", 400>>)
               /\ UNCHANGED employees
          ELSE IF RoleOf(u) \notin {ADMIN, HR} /\ me = None
          THEN resp' = Raised /\ UNCHANGED employees
          ELSE IF /\ RoleOf(u) = MANAGER
                  /\ employee.manager_id # me /\ employee_id # me
          THEN /\ resp' = error_response(<<"no permission", 403>>)
               /\ UNCHANGED employees
          ELSE IF RoleOf(u) \notin {ADMIN, HR, MANAGER} /\ employee_id # me
          THEN /\ resp' = error_response(<<"no permission", 403>>)
               /\ UNCHANGED employees
          ELSE /\ employees' =
                     [employees EXCEPT ![employee_id] = SetFields(employee, kept)]
               /\ resp' = success_response(<<"dump">>)

EmployeeIds == {3, 4, 9}

EmployeeUpdateBodies ==
    { [first_name |-> "x", last_name |-> "y", phone_number |-> "p",
       address |-> "q", department_id |-> 7, position |-> "lead",
       date_of_birth |-> 1, gender |-> "other", manager_id |-> 5,
       profile_image |-> "i"],
      [manager_id |-> 5, position |-> "dev"],
      [gender |-> "x"] }

NextEmployees ==
    \E u \in {1, 3, 4, 5, 6}, id \in EmployeeIds, data \in EmployeeUpdateBodies :
        update_employee(u, id, data)

SpecEmployees == Empty /\ [][NextEmployees]_vars

(***************************************************************************)
(* C14. update_employee called by a MANAGER changes at most first_name,    *)
(* last_name, phone_number and address, and only of the manager or of a    *)
(* direct report; called by an EMPLOYEE it changes at most phone_number    *)
(* and address, and only of the caller's own record. So department_id,     *)
(* manager_id, position, date_of_birth and gender of an employee change    *)
(* only through an ADMIN or HR caller.                                     *)
(***************************************************************************)
C14_Step ==
    /\ Len(employees') = Len(employees)
    /\ \A e \in DOMAIN employees : \A f \in DOMAIN employees[e] :
          employees'[e][f] # employees[e][f] =>
              LET role == users[req'.user].role
                  mine == {m \in DOMAIN employees :
                              employees[m].user_id = req'.user}
              IN /\ req'.op = "update_employee" /\ req'.id = e
                 /\ \/ role \in {ADMIN, HR}
                    \/ /\ role = MANAGER
                       /\ f \in {"first_name", "last_name", "phone_number",
                                 "address"}
                       /\ e \in mine \/ employees[e].manager_id \in mine
                    \/ /\ role = EMPLOYEE
                       /\ f \in {"phone_number", "address"}
                       /\ e \in mine
                 /\ f \in {"department_id", "manager_id", "position",
                           "date_of_birth", "gender"} => role \in {ADMIN, HR}

C14_FieldsByRole == [][C14_Step]_vars

\* the second manager, made manager of the employee by the admin, sent the
\* full body for that employee: the names and contact changed, the
\* position the admin had set and the department did not
C14_Witness ==
    /\ req.op = "update_employee" /\ req.user = 5 /\ req.id = 4 /\ resp = 200
    /\ "position" \in DOMAIN req.body
    /\ employees[4].manager_id = 5
    /\ employees[4].first_name = "x"
    /\ employees[4].phone_number = "p"
    /\ employees[4].position = "dev"
    /\ employees[4].department_id = None

(***************************************************************************)
(* get_employees, get_employee.                                            *)
(***************************************************************************)
\* what the two readers never touch
not_dumped == <<now, users, employees, attendance, leave_requests, projects,
                project_members, okrs, key_results, payrolls, proc>>

\* column ILIKE '%search%': the search terms of the model are whole values of
\* a column, so a text contains the term exactly when it is the term; a NULL
\* text matches nothing
Ilike(text, search) == text # NoText /\ text = search

\* rows of get_employees' query after its filters; department_id 0 and
\* search "" are falsy and leave the filter out
EmployeeQuery(department_id, search) ==
    {i \in DOMAIN employees :
        /\ department_id # 0 => employees[i].department_id = department_id
        /\ search # "" =>
              \/ Ilike(employees[i].first_name, search)
              \/ Ilike(employees[i].last_name, search)
              \/ Ilike(employees[i].employee_id, search)
              \/ Ilike(employees[i].position, search)}

\* paginate(query, page, per_page).items: limit and offset over the rows in
\* id order
paginate(query, page, per_page) ==
    LET p == Max({1, page})
        n == Min({Max({1, per_page}), 100})
        rank(i) == Cardinality({j \in query : j < i})
    IN {i \in query : (p - 1) * n <= rank(i) /\ rank(i) < p * n}

\* GET /employees.  The handler reads the caller's identity nowhere.
get_employees(u, page, per_page, department_id, search) ==
    /\ req' = RequestWith("get_employees", u, None,
                          [page |-> page, per_page |-> per_page,
                           department_id |-> department_id, search |-> search])
    /\ UNCHANGED not_dumped
    /\ dumped' = paginate(EmployeeQuery(department_id, search), page, per_page)
    /\ resp' = success_response(<<"result">>)

\* GET /employees/<employee_id>
get_employee(u, employee_id) ==
    LET employee == employees[employee_id]
        me == EmployeeOfUser(u)
    IN /\ req' = RequestOn("get_employee", u, employee_id)
       /\ UNCHANGED not_dumped
       /\ IF employee_id \notin DOMAIN employees
          THEN /\ resp' = error_response(<<"Employee not found", 404>>)
               /\ dumped' = {}
          ELSE IF RoleOf(u) \notin {ADMIN, HR} /\ me = None
          THEN resp' = Raised /\ dumped' = {}
          ELSE IF /\ RoleOf(u) = MANAGER
                  /\ employee.manager_id # me /\ employee_id # me
          THEN /\ resp' = error_response(<<"no permission", 403>>)
               /\ dumped' = {}
          ELSE IF RoleOf(u) \notin {ADMIN, HR, MANAGER} /\ employee_id # me
          THEN /\ resp' = error_response(<<"no permission", 403>>)
               /\ dumped' = {}
          ELSE /\ dumped' = {employee_id}
               /\ resp' = success_response(<<"employee_data">>)

\* the administrator moves an employee between managers and departments
DirectoryUpdateBodies ==
    {[manager_id |-> 5], [manager_id |-> 3], [department_id |-> 7],
     [position |-> "dev"]}

NextDirectory ==
    \/ \E u \in {1, 3, 4}, page \in {1, 2}, per_page \in {2, 20},
          department_id \in {0, 7}, search \in {"", "E4", "dev"} :
          get_employees(u, page, per_page, department_id, search)
    \/ \E u \in {1, 3, 4, 5, 6}, id \in EmployeeIds : get_employee(u, id)
    \/ \E id \in {3, 4}, data \in DirectoryUpdateBodies :
          update_employee(1, id, data)

SpecDirectory == Empty /\ [][NextDirectory]_vars

(***************************************************************************)
(* C15. An answer of get_employees or get_employee to a caller with role   *)
(* EMPLOYEE carries the profile of no employee but the caller, and an      *)
(* answer to a MANAGER only the profiles of the manager and of the         *)
(* manager's direct reports.  get_employees answers every caller with      *)
(* every row of its query, so this does not hold.                          *)
(***************************************************************************)
C15_Step ==
    (req'.op \in {"get_employees", "get_employee"} /\ resp' = 200) =>
        LET role == users[req'.user].role
            mine == {m \in DOMAIN employees : employees[m].user_id = req'.user}
        IN \A e \in dumped' :
              \/ role \in {ADMIN, HR}
              \/ role = MANAGER /\ (e \in mine \/ employees[e].manager_id \in mine)
              \/ role = EMPLOYEE /\ e \in mine

C15_ReadsByRole == [][C15_Step]_vars

(***************************************************************************)
(* Two create_leave_request requests in flight: each worker runs the       *)
(* handler up to its overlap query in one step and the insert and commit   *)
(* in a later one, against the same table.  Table leave_requests has no    *)
(* constraint besides its primary key, so the commit is never refused.     *)
(***************************************************************************)
NoBody == [leave_type |-> "none", start_date |-> 0, end_date |-> 0, days |-> 0]

LeaveIdle == [pc |-> "idle", user |-> None, emp |-> None, data |-> NoBody,
              resp |-> None]

\* create_leave_request up to "if overlapping": the employee and the body
\* the worker holds from here on
create_leave_request_lookup(w, u, data) ==
    LET e == EmployeeOfUser(u)
        answer(code) == proc' = [proc EXCEPT ![w] =
            [LeaveIdle EXCEPT !.pc = "done", !.user = u, !.resp = code]]
    IN /\ proc[w].pc = "idle"
       /\ IF ~LeaveCreateValid(data)
          THEN answer(400)
          ELSE IF e = None
          THEN answer(404)
          ELSE IF "days" \notin DOMAIN data
          THEN answer(500)
          ELSE IF data.start_date > data.end_date
          THEN answer(400)
          ELSE IF data.start_date < today
          THEN answer(400)
          ELSE IF Overlapping(leave_requests, e, None, data.start_date,
                              data.end_date)
          THEN answer(400)
          ELSE proc' = [proc EXCEPT ![w] =
                  [pc |-> "checked", user |-> u, emp |-> e, data |-> data,
                   resp |-> None]]
       /\ UNCHANGED <<now, users, employees, attendance, leave_requests,
                      projects, project_members, okrs, key_results, payrolls,
                      dumped, req, resp>>

\* create_leave_request from "leave_request = LeaveRequest(...)" to the
\* commit and the 201
create_leave_request_commit(w) ==
    LET me == proc[w]
        row == [employee_id |-> me.emp, leave_type |-> me.data.leave_type,
                start_date |-> me.data.start_date,
                end_date |-> me.data.end_date,
                days |-> me.data.days,
                reason |-> Get(me.data, "reason", NoText),
                status |-> PENDING, reviewed_by |-> None,
                reviewed_at |-> None, review_note |-> NoText]
    IN /\ me.pc = "checked"
       /\ leave_requests' = Append(leave_requests, row)
       /\ proc' = [proc EXCEPT ![w].pc = "done", ![w].resp = 201]
       /\ UNCHANGED <<now, users, employees, attendance, projects,
                      project_members, okrs, key_results, payrolls, dumped,
                      req, resp>>

InitLeaveRace ==
    /\ now = 1
    /\ users = DirectoryUsers
    /\ employees = DirectoryEmployees
    /\ attendance = {}
    /\ leave_requests = <<>>
    /\ projects = <<>>
    /\ project_members = {}
    /\ okrs = <<>>
    /\ key_results = {}
    /\ payrolls = DirectoryPayrolls
    /\ proc = [w \in Workers |-> LeaveIdle]
    /\ dumped = {}
    /\ req = Request("none", None)
    /\ resp = None

NextLeaveRace ==
    \/ \E w \in Workers, data \in OverlapCreateBodies :
          create_leave_request_lookup(w, 4, data)
    \/ \E w \in Workers : create_leave_request_lookup(w, 3, WholePeriod)
    \/ \E w \in Workers : create_leave_request_commit(w)

SpecLeaveRace == InitLeaveRace /\ [][NextLeaveRace]_vars

(***************************************************************************)
(* C16. Also when two create_leave_request requests of one employee for    *)
(* overlapping dates both run the overlap query before either commits, no  *)
(* two PENDING or APPROVED leave requests of the employee share a day.     *)
(* Nothing orders the two requests and the table has no constraint that    *)
(* refuses the second insert, so this does not hold.                       *)
(***************************************************************************)
C16_NoOverlappingLeaveRaced ==
    ~ \E i, j \in DOMAIN leave_requests :
          /\ i < j
          /\ leave_requests[i].employee_id = leave_requests[j].employee_id
          /\ {leave_requests[i].status, leave_requests[j].status}
                \subseteq {PENDING, APPROVED}
          /\ ShareDay(leave_requests[i], leave_requests[j])

====
